---- MODULE Spec2Model ----
(***************************************************************************)
(* Authentication / authorization and API-key issuance core of the         *)
(* gateway: the account directory, the stateless JWT token service, the    *)
(* access-control gates and the route handlers that bind them together.    *)
(*                                                                         *)
(* Optional values (undefined / null in the source) are sequences of       *)
(* length 0 or 1.  Time is the wall clock in seconds.                      *)
(***************************************************************************)
EXTENDS Integers, Sequences, FiniteSets, TLC

VARIABLES
    users,      \* the users table, in insertion order (id = position)
    apiKeys,    \* the api_keys table, in insertion order (id = position)
    held,       \* tokens returned by the server that clients still hold
    now,        \* the wall clock, seconds
    regs,       \* POST /api/register requests in flight, per connection
    last,       \* the request answered by the latest step, with its response
    rateLimits, \* the rate_limits table, in insertion order (id = position)
    rlCalls,    \* calls of createOrUpdateRateLimit in flight, per caller
    client      \* the browser's AuthProvider: its state, localStorage, requests

vars == <<users, apiKeys, held, now, regs, last, rateLimits, rlCalls, client>>

----------------------------------------------------------------------------
(* Bounds of the model *)

MaxUsers == 3
MaxKeys == 2
MaxHeld == 2
MaxTicks == 2
MaxCalls == 3
MaxPending == 2

ReqIds == {"c1", "c2"}

TickSeconds == 12 * 60 * 60

\* The browser before the AuthProvider is mounted: nothing stored, nothing
\* pending.  Absent values (null) are empty sequences.
Unmounted ==
    [user |-> <<>>, token |-> <<>>, refreshTokenValue |-> <<>>,
     storage |-> [accessToken |-> <<>>, refreshToken |-> <<>>],
     pending |-> {}, loggedOut |-> FALSE]

\* No rate-limit row, no call of createOrUpdateRateLimit under way, no browser.
RoutesAlone ==
    /\ rateLimits = <<>>
    /\ rlCalls = [c \in ReqIds |-> [pc |-> "idle"]]
    /\ client = Unmounted

----------------------------------------------------------------------------
(* Token service: server/auth.ts *)

JWT_SECRET == "SESSION_SECRET"
ACCESS_TOKEN_EXPIRY == 24 * 60 * 60
REFRESH_TOKEN_EXPIRY == 7 * 24 * 60 * 60

\* jwt.sign(payload, key, {expiresIn}): the payload, iat, exp and the signing key.
Sign(payload, key, expiresIn, t) ==
    [userId |-> payload.userId, username |-> payload.username,
     role |-> payload.role, type |-> payload.type,
     iat |-> t, exp |-> t + expiresIn, sig |-> key]

\* generateAccessToken with the role claim fixed instead of copied.
generateAccessTokenAsUser(user, t) ==
    Sign([userId |-> user.id, username |-> user.username,
          role |-> "user", type |-> "access"],
         JWT_SECRET, ACCESS_TOKEN_EXPIRY, t)

generateAccessToken(user, t) ==
    Sign([userId |-> user.id, username |-> user.username,
          role |-> user.role, type |-> "access"],
         JWT_SECRET, ACCESS_TOKEN_EXPIRY, t)

generateRefreshToken(user, t) ==
    Sign([userId |-> user.id, username |-> user.username,
          role |-> user.role, type |-> "refresh"],
         JWT_SECRET, REFRESH_TOKEN_EXPIRY, t)

\* verifyToken that does not look at the clock.
verifyTokenIgnoresExpiry(token, t) ==
    IF token.sig = JWT_SECRET
    THEN <<[userId |-> token.userId, username |-> token.username,
            role |-> token.role, type |-> token.type]>>
    ELSE <<>>

\* verifyToken that accepts a token signed with any key.
verifyTokenAnyKey(token, t) ==
    IF t < token.exp
    THEN <<[userId |-> token.userId, username |-> token.username,
            role |-> token.role, type |-> token.type]>>
    ELSE <<>>

\* jwt.verify: the signature must be JWT_SECRET's and the clock before exp;
\* any failure is caught and answered with null (the empty sequence).
verifyToken(token, t) ==
    IF token.sig = JWT_SECRET /\ t < token.exp
    THEN <<[userId |-> token.userId, username |-> token.username,
            role |-> token.role, type |-> token.type]>>
    ELSE <<>>

\* hashPassword that returns the password as it is.
hashPasswordPlain(password) == password

\* bcrypt.hash(password, 10): the modular-crypt string of the password.
hashPassword(password) == "$2a$10$" \o password

comparePassword(password, hash) == hash = hashPassword(password)

\* authMiddleware with the type of the token left unchecked.
authMiddlewareAnyType(authHeader, t) ==
    IF authHeader = <<>> \/ authHeader[1].prefix # "Bearer "
    THEN [status |-> 401, message |-> "No token provided",
          userId |-> 0, userRole |-> ""]
    ELSE LET payload == verifyToken(authHeader[1].rest, t)
         IN  IF payload = <<>>
             THEN [status |-> 401, message |-> "Invalid or expired token",
                   userId |-> 0, userRole |-> ""]
             ELSE [status |-> 0, message |-> "",
                   userId |-> payload[1].userId, userRole |-> payload[1].role]

\* authMiddleware that reads the token of any header, whatever its scheme.
authMiddlewareAnyScheme(authHeader, t) ==
    IF authHeader = <<>>
    THEN [status |-> 401, message |-> "No token provided",
          userId |-> 0, userRole |-> ""]
    ELSE LET payload == verifyToken(authHeader[1].rest, t)
         IN  IF payload = <<>> \/ payload[1].type # "access"
             THEN [status |-> 401, message |-> "Invalid or expired token",
                   userId |-> 0, userRole |-> ""]
             ELSE [status |-> 0, message |-> "",
                   userId |-> payload[1].userId, userRole |-> payload[1].role]

\* authMiddleware: the Authorization header is absent (<<>>) or a string,
\* held here as its first 7 characters and the rest.
\* status 0 means next() was called.
authMiddleware(authHeader, t) ==
    IF authHeader = <<>> \/ authHeader[1].prefix # "Bearer "
    THEN [status |-> 401, message |-> "No token provided",
          userId |-> 0, userRole |-> ""]
    ELSE LET payload == verifyToken(authHeader[1].rest, t)
         IN  IF payload = <<>> \/ payload[1].type # "access"
             THEN [status |-> 401, message |-> "Invalid or expired token",
                   userId |-> 0, userRole |-> ""]
             ELSE [status |-> 0, message |-> "",
                   userId |-> payload[1].userId, userRole |-> payload[1].role]

\* requireRole that lets every authenticated identity through.
requireRoleAnyone(role, gate) == gate

\* requireRole(role) applied to the identity the authentication gate attached.
requireRole(role, gate) ==
    IF gate.userRole # role
    THEN [gate EXCEPT !.status = 403, !.message = "Insufficient permissions"]
    ELSE gate

----------------------------------------------------------------------------
(* Validation schemas: shared/schema.ts *)

CharAt(s, i) == SubSeq(s, i, i)

\* z.string().email(): one "@", a non-empty local part, and a domain made of
\* dot-separated labels ending in a top-level label of two characters or more.
IsEmail(s) ==
    \E i \in 2..Len(s) :
        /\ CharAt(s, i) = "@"
        /\ \A j \in 1..Len(s) : CharAt(s, j) = "@" => j = i
        /\ \E d \in (i + 2)..(Len(s) - 2) :
              /\ CharAt(s, d) = "."
              /\ \A j \in (d + 1)..Len(s) : CharAt(s, j) # "."
        /\ CharAt(s, i + 1) # "."

\* registerSchema.parse(body): the first issue's message, or "" when the body is valid.
registerSchema(body) ==
    IF Len(body.username) < 3 THEN "Username must be at least 3 characters"
    ELSE IF ~IsEmail(body.email) THEN "Invalid email address"
    ELSE IF Len(body.password) < 6 THEN "Password must be at least 6 characters"
    ELSE ""

\* loginSchema.parse(body)
loginSchema(body) ==
    IF Len(body.username) < 1 THEN "Username is required"
    ELSE IF Len(body.password) < 1 THEN "Password is required"
    ELSE ""

----------------------------------------------------------------------------
(* Persistence: server/storage.ts over the tables of shared/schema.ts *)

getUser(tbl, id) ==
    IF id \in 1..Len(tbl) THEN <<tbl[id]>> ELSE <<>>

\* getUserByUsername comparing the wrong column.
getUserByUsernameWrongColumn(tbl, username) ==
    IF \E i \in 1..Len(tbl) : tbl[i].email = username
    THEN <<tbl[CHOOSE i \in 1..Len(tbl) : tbl[i].email = username]>>
    ELSE <<>>

getUserByUsername(tbl, username) ==
    IF \E i \in 1..Len(tbl) : tbl[i].username = username
    THEN <<tbl[CHOOSE i \in 1..Len(tbl) : tbl[i].username = username]>>
    ELSE <<>>

getUserByEmail(tbl, email) ==
    IF \E i \in 1..Len(tbl) : tbl[i].email = email
    THEN <<tbl[CHOOSE i \in 1..Len(tbl) : tbl[i].email = email]>>
    ELSE <<>>

\* users.username and users.email are declared .unique(): an insert that
\* repeats either is refused by the store and the call throws.
UsersUniqueViolation(tbl, insertUser) ==
    \E i \in 1..Len(tbl) :
        \/ tbl[i].username = insertUser.username
        \/ tbl[i].email = insertUser.email

\* createUser over a table that lacks the unique constraints.
createUserNoUnique(tbl, insertUser, t) ==
    LET user == [id |-> Len(tbl) + 1,
                 username |-> insertUser.username,
                 email |-> insertUser.email,
                 password |-> insertUser.password,
                 role |-> "user",
                 isActive |-> TRUE,
                 createdAt |-> t]
    IN  [threw |-> FALSE, rows |-> Append(tbl, user), user |-> <<user>>]

\* db.insert(users).values(insertUser).returning(): the column defaults fill
\* id, role, isActive and createdAt.
createUser(tbl, insertUser, t) ==
    IF UsersUniqueViolation(tbl, insertUser)
    THEN [threw |-> TRUE, rows |-> tbl, user |-> <<>>]
    ELSE LET user == [id |-> Len(tbl) + 1,
                      username |-> insertUser.username,
                      email |-> insertUser.email,
                      password |-> insertUser.password,
                      role |-> "user",
                      isActive |-> TRUE,
                      createdAt |-> t]
         IN  [threw |-> FALSE, rows |-> Append(tbl, user), user |-> <<user>>]

\* db.update(users).set(data).where(eq(users.id, id)).returning(); data holds
\* the optional role and isActive.  An empty set() is refused by the query
\* builder and the call throws.
updateUser(tbl, id, data) ==
    IF data.role = <<>> /\ data.isActive = <<>>
    THEN [threw |-> TRUE, rows |-> tbl, user |-> <<>>]
    ELSE IF id \notin 1..Len(tbl)
    THEN [threw |-> FALSE, rows |-> tbl, user |-> <<>>]
    ELSE LET user == [tbl[id] EXCEPT
                        !.role = IF data.role = <<>> THEN @ ELSE data.role[1],
                        !.isActive = IF data.isActive = <<>> THEN @
                                     ELSE data.isActive[1]]
         IN  [threw |-> FALSE, rows |-> [tbl EXCEPT ![id] = user],
              user |-> <<user>>]

\* The sequences that list the rows of tbl newest first; rows created in the
\* same instant come in either order.
NewestFirst(tbl, ids) ==
    {s \in [1..Cardinality(ids) -> ids] :
        /\ \A i, j \in 1..Cardinality(ids) : i # j => s[i] # s[j]
        /\ \A i, j \in 1..Cardinality(ids) :
              i < j => tbl[s[i]].createdAt >= tbl[s[j]].createdAt}

Rows(tbl, order) == [i \in 1..Len(order) |-> tbl[order[i]]]

getAllUsers(tbl) == {Rows(tbl, o) : o \in NewestFirst(tbl, 1..Len(tbl))}

getApiKey(tbl, id) ==
    IF id \in 1..Len(tbl) THEN <<tbl[id]>> ELSE <<>>

\* getApiKeysByUser without the filter on user_id.
getApiKeysOfAnyone(tbl, userId) ==
    {Rows(tbl, o) : o \in NewestFirst(tbl, 1..Len(tbl))}

getApiKeysByUser(tbl, userId) ==
    {Rows(tbl, o) :
        o \in NewestFirst(tbl, {i \in 1..Len(tbl) : tbl[i].userId = userId})}

\* createApiKey that replaces the caller's key of the same name, if any.
createApiKeyUpsert(tbl, apiKey, t) ==
    LET same == {i \in 1..Len(tbl) : /\ tbl[i].userId = apiKey.userId
                                     /\ tbl[i].name = apiKey.name}
        id == IF same = {} THEN Len(tbl) + 1 ELSE CHOOSE i \in same : TRUE
        key == [id |-> id,
                userId |-> apiKey.userId,
                name |-> apiKey.name,
                keyHash |-> apiKey.keyHash,
                keyPrefix |-> apiKey.keyPrefix,
                permissions |-> apiKey.permissions,
                rateLimit |-> apiKey.rateLimit,
                isActive |-> apiKey.isActive,
                lastUsedAt |-> apiKey.lastUsedAt,
                expiresAt |-> apiKey.expiresAt,
                createdAt |-> t]
    IN  [rows |-> IF same = {} THEN Append(tbl, key) ELSE [tbl EXCEPT ![id] = key],
         key |-> key]

\* db.insert(apiKeys).values(apiKey).returning()
createApiKey(tbl, apiKey, t) ==
    LET key == [id |-> Len(tbl) + 1,
                userId |-> apiKey.userId,
                name |-> apiKey.name,
                keyHash |-> apiKey.keyHash,
                keyPrefix |-> apiKey.keyPrefix,
                permissions |-> apiKey.permissions,
                rateLimit |-> apiKey.rateLimit,
                isActive |-> apiKey.isActive,
                lastUsedAt |-> apiKey.lastUsedAt,
                expiresAt |-> apiKey.expiresAt,
                createdAt |-> t]
    IN  [rows |-> Append(tbl, key), key |-> key]

\* deleteApiKey as a delete of the row.
deleteApiKeyRow(tbl, id) == SelectSeq(tbl, LAMBDA k : k.id # id)

\* deleteApiKey as a switch of isActive.
deleteApiKeyToggle(tbl, id) ==
    [i \in 1..Len(tbl) |->
        IF tbl[i].id = id THEN [tbl[i] EXCEPT !.isActive = ~@] ELSE tbl[i]]

\* deleteApiKey: an update that clears isActive; the row stays.
deleteApiKey(tbl, id) ==
    [i \in 1..Len(tbl) |->
        IF tbl[i].id = id THEN [tbl[i] EXCEPT !.isActive = FALSE] ELSE tbl[i]]

----------------------------------------------------------------------------
(* API-key secrets: server/routes.ts *)

HexDigit(n) == SubSeq("0123456789abcdef", n + 1, n + 1)

HexByte(b) == HexDigit(b \div 16) \o HexDigit(b % 16)

RECURSIVE ToHex(_)
ToHex(bytes) ==
    IF bytes = <<>> THEN "" ELSE HexByte(Head(bytes)) \o ToHex(Tail(bytes))

\* randomBytes(24): the outcomes drawn in the model.
RandomBytes == {[i \in 1..24 |-> b] : b \in {10, 171, 255}}

\* generateApiKey with another literal in front.
generateApiKeyTest(bytes) == "sk_test_" \o ToHex(bytes)

generateApiKey(bytes) == "sk_live_" \o ToHex(bytes)

\* hashApiKey that stores the key as it is.
hashApiKeyPlain(key) == key

\* createHash("sha256").update(key).digest("hex"): kept symbolic and injective.
hashApiKey(key) == "sha256:" \o key

----------------------------------------------------------------------------
(* Requests and responses *)

\* The response fields any route may fill; a route fills its own.  error is
\* what a store call of the handler threw and logged what console.error wrote.
NoResponse ==
    [op |-> "none", conn |-> "", auth |-> <<>>, input |-> <<>>,
     status |-> 0, message |-> "", ran |-> FALSE,
     user |-> <<>>, users |-> <<>>, accessToken |-> <<>>, refreshToken |-> <<>>,
     keys |-> <<>>, apiKey |-> <<>>, key |-> <<>>,
     error |-> <<>>, logged |-> <<>>]

\* The user row sent as it is.
WithPassword(user) == user

\* const { password, ...userWithoutPassword } = user
WithoutPassword(user) == [f \in (DOMAIN user) \ {"password"} |-> user[f]]

\* A token no client obtained from the server: signed with another key.
ForgedTokens ==
    {[userId |-> 1, username |-> "root", role |-> "admin", type |-> "access",
      iat |-> 0, exp |-> 10 * REFRESH_TOKEN_EXPIRY, sig |-> "attacker-key"]}

\* The Authorization headers a client can send.
AuthHeaders ==
    {<<>>}
        \cup {<<[prefix |-> "Bearer ", rest |-> tok]>> : tok \in held \cup ForgedTokens}
        \cup {<<[prefix |-> "Token: ", rest |-> tok]>> : tok \in held}

\* The tokens of a response that the client keeps.
Keep(tokens) ==
    {k \in SUBSET tokens : Cardinality(held \cup k) <= MaxHeld}

Usernames == {"alice", "bob", "al"}
Emails == {"a@x.io", "b@x.io", "a.x.io"}

----------------------------------------------------------------------------
(* The state after start-up: the store holds one administrator. *)

Init ==
    /\ users = <<[id |-> 1, username |-> "root", email |-> "root@x.io",
                  password |-> hashPassword("adminpw"), role |-> "admin",
                  isActive |-> TRUE, createdAt |-> 0]>>
    /\ apiKeys = <<>>
    /\ held = {}
    /\ now = 0
    /\ regs = [c \in ReqIds |-> [pc |-> "idle", data |-> <<>>]]
    /\ last = NoResponse
    /\ RoutesAlone

----------------------------------------------------------------------------
(* POST /api/register: one step per store call, so that requests on *)
(* different connections interleave between the calls.              *)

\* registerSchema.parse and storage.getUserByUsername
RegisterCheckUsername(c, body) ==
    /\ regs[c].pc = "idle"
    /\ LET issue == registerSchema(body)
           resp == [NoResponse EXCEPT !.op = "register", !.conn = c,
                                      !.input = <<body>>, !.ran = TRUE]
       IN  IF issue # ""
           THEN /\ last' = [resp EXCEPT !.status = 400, !.message = issue]
                /\ UNCHANGED regs
           ELSE IF getUserByUsername(users, body.username) # <<>>
           THEN /\ last' = [resp EXCEPT !.status = 400,
                                        !.message = "Username already exists"]
                /\ UNCHANGED regs
           ELSE /\ last' = resp
                /\ regs' = [regs EXCEPT ![c] = [pc |-> "checkEmail",
                                                 data |-> <<body>>]]
    /\ UNCHANGED <<users, apiKeys, held, now>>
    /\ UNCHANGED <<rateLimits, rlCalls, client>>

\* storage.getUserByEmail
RegisterCheckEmail(c) ==
    /\ regs[c].pc = "checkEmail"
    /\ LET body == regs[c].data[1]
           resp == [NoResponse EXCEPT !.op = "register", !.conn = c,
                                      !.input = <<body>>, !.ran = TRUE]
       IN  IF getUserByEmail(users, body.email) # <<>>
           THEN /\ last' = [resp EXCEPT !.status = 400,
                                        !.message = "Email already exists"]
                /\ regs' = [regs EXCEPT ![c] = [pc |-> "idle", data |-> <<>>]]
           ELSE /\ last' = resp
                /\ regs' = [regs EXCEPT ![c].pc = "create"]
    /\ UNCHANGED <<users, apiKeys, held, now>>
    /\ UNCHANGED <<rateLimits, rlCalls, client>>

\* hashPassword, storage.createUser, the two tokens and the response
RegisterCreate(c) ==
    /\ regs[c].pc = "create"
    /\ LET body == regs[c].data[1]
           resp == [NoResponse EXCEPT !.op = "register", !.conn = c,
                                      !.input = <<body>>, !.ran = TRUE]
           hashedPassword == hashPassword(body.password)
           ins == createUser(users, [username |-> body.username,
                                     email |-> body.email,
                                     password |-> hashedPassword], now)
       IN  IF ins.threw
           THEN /\ last' = [resp EXCEPT !.status = 500,
                                        !.message = "Registration failed"]
                /\ UNCHANGED <<users, held>>
           ELSE LET user == ins.user[1]
                    accessToken == generateAccessToken(user, now)
                    refreshToken == generateRefreshToken(user, now)
                IN  /\ Len(users) < MaxUsers
                    /\ users' = ins.rows
                    /\ last' = [resp EXCEPT !.status = 200,
                                   !.user = <<WithoutPassword(user)>>,
                                   !.accessToken = <<accessToken>>,
                                   !.refreshToken = <<refreshToken>>]
                    /\ \E k \in Keep({accessToken, refreshToken}) :
                          held' = held \cup k
    /\ regs' = [regs EXCEPT ![c] = [pc |-> "idle", data |-> <<>>]]
    /\ UNCHANGED <<apiKeys, now>>
    /\ UNCHANGED <<rateLimits, rlCalls, client>>

----------------------------------------------------------------------------
(* POST /api/login and POST /api/refresh *)

\* Login without the isActive check.
LoginInactiveAllowed(body) ==
    /\ LET issue == loginSchema(body)
           resp == [NoResponse EXCEPT !.op = "login", !.input = <<body>>,
                                      !.ran = TRUE]
           found == getUserByUsername(users, body.username)
       IN  IF issue # ""
           THEN /\ last' = [resp EXCEPT !.status = 400, !.message = issue]
                /\ UNCHANGED held
           ELSE IF found = <<>>
           THEN /\ last' = [resp EXCEPT !.status = 401,
                                        !.message = "Invalid credentials"]
                /\ UNCHANGED held
           ELSE IF ~comparePassword(body.password, found[1].password)
           THEN /\ last' = [resp EXCEPT !.status = 401,
                                        !.message = "Invalid credentials"]
                /\ UNCHANGED held
           ELSE LET user == found[1]
                    accessToken == generateAccessToken(user, now)
                    refreshToken == generateRefreshToken(user, now)
                IN  /\ last' = [resp EXCEPT !.status = 200,
                                   !.user = <<WithoutPassword(user)>>,
                                   !.accessToken = <<accessToken>>,
                                   !.refreshToken = <<refreshToken>>]
                    /\ \E k \in Keep({accessToken, refreshToken}) :
                          held' = held \cup k
    /\ UNCHANGED <<users, apiKeys, now, regs>>
    /\ UNCHANGED <<rateLimits, rlCalls, client>>

Login(body) ==
    /\ LET issue == loginSchema(body)
           resp == [NoResponse EXCEPT !.op = "login", !.input = <<body>>,
                                      !.ran = TRUE]
           found == getUserByUsername(users, body.username)
       IN  IF issue # ""
           THEN /\ last' = [resp EXCEPT !.status = 400, !.message = issue]
                /\ UNCHANGED held
           ELSE IF found = <<>>
           THEN /\ last' = [resp EXCEPT !.status = 401,
                                        !.message = "Invalid credentials"]
                /\ UNCHANGED held
           ELSE IF ~found[1].isActive
           THEN /\ last' = [resp EXCEPT !.status = 401,
                                        !.message = "Account is deactivated"]
                /\ UNCHANGED held
           ELSE IF ~comparePassword(body.password, found[1].password)
           THEN /\ last' = [resp EXCEPT !.status = 401,
                                        !.message = "Invalid credentials"]
                /\ UNCHANGED held
           ELSE LET user == found[1]
                    accessToken == generateAccessToken(user, now)
                    refreshToken == generateRefreshToken(user, now)
                IN  /\ last' = [resp EXCEPT !.status = 200,
                                   !.user = <<WithoutPassword(user)>>,
                                   !.accessToken = <<accessToken>>,
                                   !.refreshToken = <<refreshToken>>]
                    /\ \E k \in Keep({accessToken, refreshToken}) :
                          held' = held \cup k
    /\ UNCHANGED <<users, apiKeys, now, regs>>
    /\ UNCHANGED <<rateLimits, rlCalls, client>>

\* Refresh minting the new tokens from the claims of the presented token.
RefreshFromClaims(refreshToken) ==
    /\ LET resp == [NoResponse EXCEPT !.op = "refresh",
                                      !.input = refreshToken, !.ran = TRUE]
           payload == IF refreshToken = <<>> THEN <<>>
                      ELSE verifyToken(refreshToken[1], now)
           found == IF payload = <<>> THEN <<>>
                    ELSE getUser(users, payload[1].userId)
       IN  IF refreshToken = <<>>
           THEN /\ last' = [resp EXCEPT !.status = 400,
                                        !.message = "Refresh token required"]
                /\ UNCHANGED held
           ELSE IF payload = <<>> \/ payload[1].type # "refresh"
           THEN /\ last' = [resp EXCEPT !.status = 401,
                                        !.message = "Invalid refresh token"]
                /\ UNCHANGED held
           ELSE IF found = <<>> \/ ~found[1].isActive
           THEN /\ last' = [resp EXCEPT !.status = 401,
                                        !.message = "User not found or inactive"]
                /\ UNCHANGED held
           ELSE LET user == [id |-> payload[1].userId,
                             username |-> payload[1].username,
                             role |-> payload[1].role]
                    newAccessToken == generateAccessToken(user, now)
                    newRefreshToken == generateRefreshToken(user, now)
                IN  /\ last' = [resp EXCEPT !.status = 200,
                                   !.accessToken = <<newAccessToken>>,
                                   !.refreshToken = <<newRefreshToken>>]
                    /\ \E k \in Keep({newAccessToken, newRefreshToken}) :
                          held' = held \cup k
    /\ UNCHANGED <<users, apiKeys, now, regs>>
    /\ UNCHANGED <<rateLimits, rlCalls, client>>

\* Refresh that refuses a token once a later refresh token of its user is out.
RefreshRotating(refreshToken) ==
    /\ LET resp == [NoResponse EXCEPT !.op = "refresh",
                                      !.input = refreshToken, !.ran = TRUE]
           payload == IF refreshToken = <<>> THEN <<>>
                      ELSE verifyToken(refreshToken[1], now)
           found == IF payload = <<>> THEN <<>>
                    ELSE getUser(users, payload[1].userId)
       IN  IF refreshToken = <<>>
           THEN /\ last' = [resp EXCEPT !.status = 400,
                                        !.message = "Refresh token required"]
                /\ UNCHANGED held
           ELSE IF \/ payload = <<>> \/ payload[1].type # "refresh"
                   \/ \E tok \in held : /\ tok.type = "refresh"
                                        /\ tok.userId = refreshToken[1].userId
                                        /\ tok.iat > refreshToken[1].iat
           THEN /\ last' = [resp EXCEPT !.status = 401,
                                        !.message = "Invalid refresh token"]
                /\ UNCHANGED held
           ELSE IF found = <<>> \/ ~found[1].isActive
           THEN /\ last' = [resp EXCEPT !.status = 401,
                                        !.message = "User not found or inactive"]
                /\ UNCHANGED held
           ELSE LET user == found[1]
                    newAccessToken == generateAccessToken(user, now)
                    newRefreshToken == generateRefreshToken(user, now)
                IN  /\ last' = [resp EXCEPT !.status = 200,
                                   !.accessToken = <<newAccessToken>>,
                                   !.refreshToken = <<newRefreshToken>>]
                    /\ \E k \in Keep({newAccessToken, newRefreshToken}) :
                          held' = held \cup k
    /\ UNCHANGED <<users, apiKeys, now, regs>>
    /\ UNCHANGED <<rateLimits, rlCalls, client>>

\* body.refreshToken is absent (<<>>) or a token.
Refresh(refreshToken) ==
    /\ LET resp == [NoResponse EXCEPT !.op = "refresh",
                                      !.input = refreshToken, !.ran = TRUE]
           payload == IF refreshToken = <<>> THEN <<>>
                      ELSE verifyToken(refreshToken[1], now)
           found == IF payload = <<>> THEN <<>>
                    ELSE getUser(users, payload[1].userId)
       IN  IF refreshToken = <<>>
           THEN /\ last' = [resp EXCEPT !.status = 400,
                                        !.message = "Refresh token required"]
                /\ UNCHANGED held
           ELSE IF payload = <<>> \/ payload[1].type # "refresh"
           THEN /\ last' = [resp EXCEPT !.status = 401,
                                        !.message = "Invalid refresh token"]
                /\ UNCHANGED held
           ELSE IF found = <<>> \/ ~found[1].isActive
           THEN /\ last' = [resp EXCEPT !.status = 401,
                                        !.message = "User not found or inactive"]
                /\ UNCHANGED held
           ELSE LET user == found[1]
                    newAccessToken == generateAccessToken(user, now)
                    newRefreshToken == generateRefreshToken(user, now)
                IN  /\ last' = [resp EXCEPT !.status = 200,
                                   !.accessToken = <<newAccessToken>>,
                                   !.refreshToken = <<newRefreshToken>>]
                    /\ \E k \in Keep({newAccessToken, newRefreshToken}) :
                          held' = held \cup k
    /\ UNCHANGED <<users, apiKeys, now, regs>>
    /\ UNCHANGED <<rateLimits, rlCalls, client>>

----------------------------------------------------------------------------
(* Routes behind authMiddleware *)

\* The response of a route whose gate did not call next().
Rejected(op, authHeader, gate) ==
    [NoResponse EXCEPT !.op = op, !.auth = authHeader,
                       !.status = gate.status, !.message = gate.message]

Accepted(op, authHeader, input) ==
    [NoResponse EXCEPT !.op = op, !.auth = authHeader, !.input = input,
                       !.ran = TRUE]

\* GET /api/user
GetCurrentUser(authHeader) ==
    /\ LET gate == authMiddleware(authHeader, now)
           resp == Accepted("getUser", authHeader, <<>>)
           found == getUser(users, gate.userId)
       IN  IF gate.status # 0
           THEN last' = Rejected("getUser", authHeader, gate)
           ELSE IF found = <<>>
           THEN last' = [resp EXCEPT !.status = 404,
                                     !.message = "User not found"]
           ELSE last' = [resp EXCEPT !.status = 200,
                                     !.user = <<WithoutPassword(found[1])>>]
    /\ UNCHANGED <<users, apiKeys, held, now, regs>>
    /\ UNCHANGED <<rateLimits, rlCalls, client>>

\* GET /api/api-keys
ListApiKeys(authHeader) ==
    /\ LET gate == authMiddleware(authHeader, now)
           resp == Accepted("listApiKeys", authHeader, <<>>)
       IN  IF gate.status # 0
           THEN last' = Rejected("listApiKeys", authHeader, gate)
           ELSE \E keys \in getApiKeysByUser(apiKeys, gate.userId) :
                    last' = [resp EXCEPT !.status = 200, !.keys = keys]
    /\ UNCHANGED <<users, apiKeys, held, now, regs>>
    /\ UNCHANGED <<rateLimits, rlCalls, client>>

\* POST /api/api-keys; body.rateLimit and body.expiresInDays are optional,
\* bytes is what randomBytes returns: 24 bytes that no earlier call returned.
CreateApiKey(authHeader, body, bytes) ==
    /\ LET gate == authMiddleware(authHeader, now)
           resp == Accepted("createApiKey", authHeader, <<body>>)
           userId == gate.userId
           name == body.name
           rateLimit == IF body.rateLimit = <<>> THEN 1000 ELSE body.rateLimit[1]
           expiresInDays == body.expiresInDays
           rawKey == generateApiKey(bytes)
           keyHash == hashApiKey(rawKey)
           keyPrefix == SubSeq(rawKey, 1, 12)
           expiresAt == IF expiresInDays # <<>> /\ expiresInDays[1] # 0
                        THEN <<now * 1000 + expiresInDays[1] * 24 * 60 * 60 * 1000>>
                        ELSE <<>>
           ins == createApiKey(apiKeys,
                               [userId |-> userId, name |-> name,
                                keyHash |-> keyHash, keyPrefix |-> keyPrefix,
                                permissions |-> <<>>, rateLimit |-> rateLimit,
                                isActive |-> TRUE, lastUsedAt |-> <<>>,
                                expiresAt |-> expiresAt], now)
       IN  IF gate.status # 0
           THEN /\ last' = Rejected("createApiKey", authHeader, gate)
                /\ UNCHANGED apiKeys
           ELSE IF name = ""
           THEN /\ last' = [resp EXCEPT !.status = 400,
                                        !.message = "Name is required"]
                /\ UNCHANGED apiKeys
           ELSE /\ Len(apiKeys) < MaxKeys
                /\ \A i \in 1..Len(apiKeys) : apiKeys[i].keyHash # keyHash
                /\ apiKeys' = ins.rows
                /\ last' = [resp EXCEPT !.status = 201,
                                        !.apiKey = <<ins.key>>,
                                        !.key = <<rawKey>>]
    /\ UNCHANGED <<users, held, now, regs>>
    /\ UNCHANGED <<rateLimits, rlCalls, client>>

\* DELETE /api/api-keys/:id without the ownership check.
DeleteApiKeyAnyOwner(authHeader, id) ==
    /\ LET gate == authMiddleware(authHeader, now)
           resp == Accepted("deleteApiKey", authHeader, <<id>>)
           key == getApiKey(apiKeys, id)
       IN  IF gate.status # 0
           THEN /\ last' = Rejected("deleteApiKey", authHeader, gate)
                /\ UNCHANGED apiKeys
           ELSE IF key = <<>>
           THEN /\ last' = [resp EXCEPT !.status = 404,
                                        !.message = "API key not found"]
                /\ UNCHANGED apiKeys
           ELSE /\ apiKeys' = deleteApiKey(apiKeys, id)
                /\ last' = [resp EXCEPT !.status = 204]
    /\ UNCHANGED <<users, held, now, regs>>
    /\ UNCHANGED <<rateLimits, rlCalls, client>>

\* DELETE /api/api-keys/:id
DeleteApiKey(authHeader, id) ==
    /\ LET gate == authMiddleware(authHeader, now)
           resp == Accepted("deleteApiKey", authHeader, <<id>>)
           userId == gate.userId
           key == getApiKey(apiKeys, id)
       IN  IF gate.status # 0
           THEN /\ last' = Rejected("deleteApiKey", authHeader, gate)
                /\ UNCHANGED apiKeys
           ELSE IF key = <<>> \/ key[1].userId # userId
           THEN /\ last' = [resp EXCEPT !.status = 404,
                                        !.message = "API key not found"]
                /\ UNCHANGED apiKeys
           ELSE /\ apiKeys' = deleteApiKey(apiKeys, id)
                /\ last' = [resp EXCEPT !.status = 204]
    /\ UNCHANGED <<users, held, now, regs>>
    /\ UNCHANGED <<rateLimits, rlCalls, client>>

----------------------------------------------------------------------------
(* Routes behind authMiddleware and requireRole("admin") *)

AdminGate(authHeader, t) ==
    LET gate == authMiddleware(authHeader, t)
    IN  IF gate.status # 0 THEN gate ELSE requireRole("admin", gate)

\* GET /api/admin/users
AdminListUsers(authHeader) ==
    /\ LET gate == AdminGate(authHeader, now)
           resp == Accepted("adminListUsers", authHeader, <<>>)
       IN  IF gate.status # 0
           THEN last' = Rejected("adminListUsers", authHeader, gate)
           ELSE \E rows \in getAllUsers(users) :
                    last' = [resp EXCEPT !.status = 200,
                                !.users = [i \in 1..Len(rows) |->
                                              WithoutPassword(rows[i])]]
    /\ UNCHANGED <<users, apiKeys, held, now, regs>>
    /\ UNCHANGED <<rateLimits, rlCalls, client>>

\* PATCH /api/admin/users/:id; body.role and body.isActive are optional.
AdminPatchUser(authHeader, id, body) ==
    /\ LET gate == AdminGate(authHeader, now)
           input == <<[id |-> id, role |-> body.role, isActive |-> body.isActive]>>
           resp == Accepted("adminPatchUser", authHeader, input)
           upd == updateUser(users, id, [role |-> body.role,
                                         isActive |-> body.isActive])
       IN  IF gate.status # 0
           THEN /\ last' = Rejected("adminPatchUser", authHeader, gate)
                /\ UNCHANGED users
           ELSE IF upd.threw
           THEN /\ last' = [resp EXCEPT !.status = 500,
                                        !.message = "Failed to update user"]
                /\ UNCHANGED users
           ELSE IF upd.user = <<>>
           THEN /\ last' = [resp EXCEPT !.status = 404,
                                        !.message = "User not found"]
                /\ UNCHANGED users
           ELSE /\ users' = upd.rows
                /\ last' = [resp EXCEPT !.status = 200,
                               !.user = <<WithoutPassword(upd.user[1])>>]
    /\ UNCHANGED <<apiKeys, held, now, regs>>
    /\ UNCHANGED <<rateLimits, rlCalls, client>>

----------------------------------------------------------------------------
(* The clock *)

Tick ==
    /\ now + TickSeconds <= MaxTicks * TickSeconds
    /\ now' = now + TickSeconds
    /\ last' = NoResponse
    /\ UNCHANGED <<users, apiKeys, held, regs>>
    /\ UNCHANGED <<rateLimits, rlCalls, client>>

----------------------------------------------------------------------------
(* The inputs of the requests *)

\* A gate that rejects a request does not look at its parameters or body:
\* one sample of them is enough for the rejected requests.
InputsFor(gate, S) == IF gate.status # 0 THEN {CHOOSE x \in S : TRUE} ELSE S

RegisterBodies ==
    [username : Usernames, email : Emails, password : {"secret1", "short"}]

LoginBodies ==
    {[username |-> "root", password |-> "adminpw"],
     [username |-> "alice", password |-> "secret1"],
     [username |-> "alice", password |-> "adminpw"],
     [username |-> "bob", password |-> "secret1"],
     [username |-> "root", password |-> ""],
     [username |-> "", password |-> "secret1"]}

RefreshBodies == {<<>>} \cup {<<tok>> : tok \in held \cup ForgedTokens}

ApiKeyBodies ==
    {[name |-> "", rateLimit |-> <<>>, expiresInDays |-> <<1>>],
     [name |-> "k1", rateLimit |-> <<>>, expiresInDays |-> <<>>],
     [name |-> "k1", rateLimit |-> <<5>>, expiresInDays |-> <<1>>],
     [name |-> "k1", rateLimit |-> <<>>, expiresInDays |-> <<0>>]}

PatchBodies ==
    [role : {<<>>, <<"user">>, <<"admin">>, <<"guest">>},
     isActive : {<<>>, <<TRUE>>, <<FALSE>>}]

----------------------------------------------------------------------------
(* The account, token and API-key routes together at one instant:         *)
(* requests one at a time on one connection, one registrable account and  *)
(* one API key.                                                           *)

Alice == [username |-> "alice", email |-> "a@x.io", password |-> "secret1"]

Next ==
    \/ \E body \in {Alice, [Alice EXCEPT !.username = "al"]} :
          RegisterCheckUsername("c1", body)
    \/ RegisterCheckEmail("c1")
    \/ RegisterCreate("c1")
    \/ \E body \in LoginBodies : Login(body)
    \/ \E tok \in RefreshBodies : Refresh(tok)
    \/ \E h \in AuthHeaders : GetCurrentUser(h)
    \/ \E h \in AuthHeaders : ListApiKeys(h)
    \/ \E h \in AuthHeaders :
          \E body \in InputsFor(authMiddleware(h, now),
                                {b \in ApiKeyBodies : b.rateLimit = <<>>}),
             bytes \in {CHOOSE b \in RandomBytes : TRUE} :
                Len(apiKeys) < MaxKeys - 1 /\ CreateApiKey(h, body, bytes)
    \/ \E h \in AuthHeaders :
          \E id \in InputsFor(authMiddleware(h, now), 1..MaxKeys) :
                DeleteApiKey(h, id)
    \/ \E h \in AuthHeaders : AdminListUsers(h)
    \/ \E h \in AuthHeaders :
          \E id \in InputsFor(AdminGate(h, now), 1..(Len(users) + 1)),
             body \in InputsFor(AdminGate(h, now),
                                {b \in PatchBodies : b.role # <<"guest">>}) :
                AdminPatchUser(h, id, body)

Spec == Init /\ [][Next]_vars

----------------------------------------------------------------------------
(* Registration alone, with requests on two connections interleaving      *)
(* between their store calls.  No other route writes a username or an     *)
(* email or reads a request in flight.                                    *)

NextRegister ==
    \/ \E c \in ReqIds, body \in RegisterBodies : RegisterCheckUsername(c, body)
    \/ \E c \in ReqIds : RegisterCheckEmail(c)
    \/ \E c \in ReqIds : RegisterCreate(c)

SpecRegister == Init /\ [][NextRegister]_vars

----------------------------------------------------------------------------
(* The API-key registry over time: root has logged in and alice has       *)
(* registered, each keeping the access token; the key routes read no user *)
(* row.                                                                   *)

InitKeys ==
    LET root == [id |-> 1, username |-> "root", email |-> "root@x.io",
                 password |-> hashPassword("adminpw"), role |-> "admin",
                 isActive |-> TRUE, createdAt |-> 0]
        alice == createUser(<<root>>, [Alice EXCEPT
                                !.password = hashPassword(Alice.password)], 0)
    IN  /\ users = alice.rows
        /\ apiKeys = <<>>
        /\ held = {generateAccessToken(root, 0),
                   generateAccessToken(alice.user[1], 0)}
        /\ now = 0
        /\ regs = [c \in ReqIds |-> [pc |-> "idle", data |-> <<>>]]
        /\ last = NoResponse
        /\ RoutesAlone

NextKeys ==
    \/ \E h \in AuthHeaders : ListApiKeys(h)
    \/ \E h \in AuthHeaders :
          \E body \in InputsFor(authMiddleware(h, now), ApiKeyBodies),
             bytes \in InputsFor(authMiddleware(h, now), RandomBytes) :
                CreateApiKey(h, body, bytes)
    \/ \E h \in AuthHeaders :
          \E id \in InputsFor(authMiddleware(h, now), 1..(MaxKeys + 1)) :
                DeleteApiKey(h, id)
    \/ Tick

SpecKeys == InitKeys /\ [][NextKeys]_vars

----------------------------------------------------------------------------
(* The token service over the lifetime of its tokens: one of two accounts  *)
(* logged in at time 0 and kept the refresh token; from then on tokens are *)
(* minted by POST /api/refresh only, while an administrator edits the      *)
(* accounts and the clock runs past both expiries.                         *)

\* The instants at which requests arrive.
Instants ==
    {0, TickSeconds, ACCESS_TOKEN_EXPIRY,
     REFRESH_TOKEN_EXPIRY, REFRESH_TOKEN_EXPIRY + TickSeconds}

\* The clock moves forward to a later instant.
Advance(t) ==
    /\ now < t
    /\ now' = t
    /\ last' = NoResponse
    /\ UNCHANGED <<users, apiKeys, held, regs>>
    /\ UNCHANGED <<rateLimits, rlCalls, client>>

\* A client drops a token it held (localStorage.removeItem); the server is
\* not told.
Discard(tok) ==
    /\ tok \in held
    /\ held' = held \ {tok}
    /\ last' = NoResponse
    /\ UNCHANGED <<users, apiKeys, now, regs>>
    /\ UNCHANGED <<rateLimits, rlCalls, client>>

\* A refresh token the server signed for an account whose row has since been
\* removed from the users table.
DepartedTokens ==
    {Sign([userId |-> MaxUsers + 1, username |-> "carol", role |-> "user",
           type |-> "refresh"], JWT_SECRET, REFRESH_TOKEN_EXPIRY, 0)}

InitTokens ==
    LET root == [id |-> 1, username |-> "root", email |-> "root@x.io",
                 password |-> hashPassword("adminpw"), role |-> "admin",
                 isActive |-> TRUE, createdAt |-> 0]
        alice == createUser(<<root>>, [Alice EXCEPT
                                !.password = hashPassword(Alice.password)], 0)
    IN  /\ users = alice.rows
        /\ apiKeys = <<>>
        /\ \E i \in 1..Len(alice.rows) :
              held = {generateRefreshToken(alice.rows[i], 0)}
        /\ now = 0
        /\ regs = [c \in ReqIds |-> [pc |-> "idle", data |-> <<>>]]
        /\ last = NoResponse
        /\ RoutesAlone

NextTokens ==
    \/ \E tok \in RefreshBodies \cup {<<d>> : d \in DepartedTokens} : Refresh(tok)
    \/ \E h \in AuthHeaders : GetCurrentUser(h)
    \/ \E h \in AuthHeaders : AdminListUsers(h)
    \/ \E h \in AuthHeaders :
          \E id \in InputsFor(AdminGate(h, now), 1..(Len(users) + 1)),
             body \in InputsFor(AdminGate(h, now), PatchBodies) :
                AdminPatchUser(h, id, body)
    \/ \E t \in Instants : Advance(t)
    \/ \E tok \in held : Discard(tok)

SpecTokens == InitTokens /\ [][NextTokens]_vars

----------------------------------------------------------------------------
(* Every route of registerRoutes: its gates and its catch block *)

\* gate: the middleware mounted in front of the handler; label and message:
\* what the catch block writes to the log and sends; store: whether the
\* handler calls the store at all.
Routes ==
    [register |-> [gate |-> "none", label |-> "Registration error:",
                   message |-> "Registration failed", store |-> TRUE],
     login |-> [gate |-> "none", label |-> "Login error:",
                message |-> "Login failed", store |-> TRUE],
     refresh |-> [gate |-> "none", label |-> "Refresh error:",
                  message |-> "Token refresh failed", store |-> TRUE],
     getUser |-> [gate |-> "auth", label |-> "Get user error:",
                  message |-> "Failed to get user", store |-> TRUE],
     listServices |-> [gate |-> "auth", label |-> "Get services error:",
                       message |-> "Failed to get services", store |-> TRUE],
     createService |-> [gate |-> "auth", label |-> "Create service error:",
                        message |-> "Failed to create service", store |-> TRUE],
     updateService |-> [gate |-> "auth", label |-> "Update service error:",
                        message |-> "Failed to update service", store |-> TRUE],
     deleteService |-> [gate |-> "auth", label |-> "Delete service error:",
                        message |-> "Failed to delete service", store |-> TRUE],
     listApiKeys |-> [gate |-> "auth", label |-> "Get API keys error:",
                      message |-> "Failed to get API keys", store |-> TRUE],
     createApiKey |-> [gate |-> "auth", label |-> "Create API key error:",
                       message |-> "Failed to create API key", store |-> TRUE],
     deleteApiKey |-> [gate |-> "auth", label |-> "Delete API key error:",
                       message |-> "Failed to delete API key", store |-> TRUE],
     getLogs |-> [gate |-> "auth", label |-> "Get logs error:",
                  message |-> "Failed to get logs", store |-> TRUE],
     dashboardStats |-> [gate |-> "auth", label |-> "Get dashboard stats error:",
                         message |-> "Failed to get stats", store |-> TRUE],
     monitoringStats |-> [gate |-> "auth", label |-> "Get monitoring stats error:",
                          message |-> "Failed to get monitoring stats",
                          store |-> TRUE],
     monitoringTimeseries |-> [gate |-> "auth", label |-> "Get timeseries error:",
                               message |-> "Failed to get timeseries",
                               store |-> FALSE],
     monitoringServices |-> [gate |-> "auth", label |-> "Get service stats error:",
                             message |-> "Failed to get service stats",
                             store |-> TRUE],
     adminListUsers |-> [gate |-> "admin", label |-> "Get users error:",
                         message |-> "Failed to get users", store |-> TRUE],
     adminPatchUser |-> [gate |-> "admin", label |-> "Update user error:",
                         message |-> "Failed to update user", store |-> TRUE]]

\* Routes mounted without any middleware.
RouteGateOpen(op, authHeader, t) ==
    [status |-> 0, message |-> "", userId |-> 0, userRole |-> ""]

\* The middleware in front of the handler of op, applied to a request.
RouteGate(op, authHeader, t) ==
    IF Routes[op].gate = "none"
    THEN [status |-> 0, message |-> "", userId |-> 0, userRole |-> ""]
    ELSE IF Routes[op].gate = "auth" THEN authMiddleware(authHeader, t)
    ELSE AdminGate(authHeader, t)

\* The routes whose tables (services, request logs) the state does not hold,
\* with the statuses their handlers answer when no store call throws.
OtherRoutes ==
    [listServices |-> {200}, createService |-> {201, 400},
     updateService |-> {200, 404}, deleteService |-> {204}, getLogs |-> {200},
     dashboardStats |-> {200}, monitoringStats |-> {200},
     monitoringTimeseries |-> {200}, monitoringServices |-> {200}]

\* A request to one of those routes; its handler writes none of the tables
\* held here.
OtherRoute(op, authHeader, status) ==
    /\ LET gate == RouteGate(op, authHeader, now)
       IN  IF gate.status # 0
           THEN last' = Rejected(op, authHeader, gate)
           ELSE /\ status \in OtherRoutes[op]
                /\ last' = [Accepted(op, authHeader, <<>>) EXCEPT !.status = status]
    /\ UNCHANGED <<users, apiKeys, held, now, regs>>
    /\ UNCHANGED <<rateLimits, rlCalls, client>>

\* What a store call can throw: the message of the driver's error.
StoreErrors ==
    {"connect ECONNREFUSED 10.0.0.5:5432",
     "relation \"users\" does not exist"}

\* HandlerFails with a catch block that sends the error's message.
HandlerFailsLeaking(op, authHeader, e) ==
    /\ Routes[op].store
    /\ op # "register"
    /\ LET gate == RouteGate(op, authHeader, now)
       IN  IF gate.status # 0
           THEN last' = Rejected(op, authHeader, gate)
           ELSE last' = [Accepted(op, authHeader, <<>>) EXCEPT
                            !.status = 500,
                            !.message = e,
                            !.error = <<e>>,
                            !.logged = <<Routes[op].label, e>>]
    /\ UNCHANGED <<users, apiKeys, held, now, regs>>
    /\ UNCHANGED <<rateLimits, rlCalls, client>>

\* A request to a route behind its gates whose first store call throws e: the
\* catch block logs the error and answers 500.  authHeader is <<>> for the
\* routes without a gate.
HandlerFails(op, authHeader, e) ==
    /\ Routes[op].store
    /\ op # "register"
    /\ LET gate == RouteGate(op, authHeader, now)
       IN  IF gate.status # 0
           THEN last' = Rejected(op, authHeader, gate)
           ELSE last' = [Accepted(op, authHeader, <<>>) EXCEPT
                            !.status = 500,
                            !.message = Routes[op].message,
                            !.error = <<e>>,
                            !.logged = <<Routes[op].label, e>>]
    /\ UNCHANGED <<users, apiKeys, held, now, regs>>
    /\ UNCHANGED <<rateLimits, rlCalls, client>>

\* POST /api/register whose next store call throws e, at any of its three
\* store calls.
RegisterFails(c, body, e) ==
    /\ IF regs[c].pc = "idle" THEN registerSchema(body) = ""
       ELSE body = regs[c].data[1]
    /\ last' = [NoResponse EXCEPT !.op = "register", !.conn = c,
                                  !.input = <<body>>, !.ran = TRUE,
                                  !.status = 500,
                                  !.message = Routes.register.message,
                                  !.error = <<e>>,
                                  !.logged = <<Routes.register.label, e>>]
    /\ regs' = [regs EXCEPT ![c] = [pc |-> "idle", data |-> <<>>]]
    /\ UNCHANGED <<users, apiKeys, held, now>>
    /\ UNCHANGED <<rateLimits, rlCalls, client>>

----------------------------------------------------------------------------
(* All routes of the gateway, each answering normally or with one of its   *)
(* store calls failing: requests one at a time, one registrable account    *)
(* and one API key.                                                        *)

NextRoutes ==
    \/ RegisterCheckUsername("c1", Alice)
    \/ RegisterCheckEmail("c1")
    \/ RegisterCreate("c1")
    \/ \E e \in StoreErrors : RegisterFails("c1", Alice, e)
    \/ \E body \in {b \in LoginBodies : comparePassword(b.password,
                                                        hashPassword("adminpw"))} :
          Login(body)
    \/ \E tok \in RefreshBodies : Refresh(tok)
    \/ \E h \in AuthHeaders : GetCurrentUser(h)
    \/ \E h \in AuthHeaders : ListApiKeys(h)
    \/ \E h \in AuthHeaders :
          \E body \in InputsFor(authMiddleware(h, now),
                                {b \in ApiKeyBodies : b.expiresInDays = <<>>}),
             bytes \in {CHOOSE b \in RandomBytes : TRUE} :
                Len(apiKeys) < MaxKeys - 1 /\ CreateApiKey(h, body, bytes)
    \/ \E h \in AuthHeaders :
          \E id \in InputsFor(authMiddleware(h, now), 1..MaxKeys) :
                DeleteApiKey(h, id)
    \/ \E h \in AuthHeaders : AdminListUsers(h)
    \/ \E h \in AuthHeaders :
          \E id \in InputsFor(AdminGate(h, now), 1..(Len(users) + 1)),
             body \in InputsFor(AdminGate(h, now),
                                {b \in PatchBodies : /\ b.isActive = <<>>
                                                     /\ b.role # <<"guest">>}) :
                AdminPatchUser(h, id, body)
    \/ \E op \in DOMAIN OtherRoutes, h \in AuthHeaders :
          \E status \in InputsFor(RouteGate(op, h, now), OtherRoutes[op]) :
                OtherRoute(op, h, status)
    \/ \E op \in DOMAIN Routes :
          \E h \in IF Routes[op].gate = "none" THEN {<<>>} ELSE AuthHeaders :
             \E e \in InputsFor(RouteGate(op, h, now), StoreErrors) :
                HandlerFails(op, h, e)

SpecRoutes == Init /\ [][NextRoutes]_vars

----------------------------------------------------------------------------
(* The same routes over a store that holds no administrator: it is empty   *)
(* or holds one ordinary user.                                             *)

InitNoAdmin ==
    /\ users \in {<<>>,
                  createUser(<<>>, [username |-> "bob", email |-> "b@x.io",
                                    password |-> hashPassword("secret1")],
                             0).rows}
    /\ apiKeys = <<>>
    /\ held = {}
    /\ now = 0
    /\ regs = [c \in ReqIds |-> [pc |-> "idle", data |-> <<>>]]
    /\ last = NoResponse
    /\ RoutesAlone

SpecNoAdmin == InitNoAdmin /\ [][Next]_vars

----------------------------------------------------------------------------
(* Rate-limit counters: DatabaseStorage.createOrUpdateRateLimit, one step  *)
(* per statement sent to the database, so that concurrent calls interleave *)
(* between their statements.                                               *)

RateLimitKeys == {1, 2}
WindowStarts == {0, 60 * 60}

\* getRateLimit: the first row the select returns, or undefined (<<>>).  The
\* query has no ORDER BY, so any matching row can come first.
getRateLimit(tbl, apiKeyId, windowStart) ==
    LET hits == {i \in 1..Len(tbl) : /\ tbl[i].apiKeyId = apiKeyId
                                     /\ tbl[i].windowStart = windowStart}
    IN  IF hits = {} THEN {<<>>} ELSE {<<tbl[i]>> : i \in hits}

\* The calls started so far, completed or under way.
CallsStarted ==
    LET RECURSIVE Sum(_)
        Sum(S) == IF S = {} THEN 0
                  ELSE LET c == CHOOSE x \in S : TRUE
                       IN  Len(rlCalls[c].done)
                              + (IF rlCalls[c].pc = "idle" THEN 0 ELSE 1)
                              + Sum(S \ {c})
    IN  Sum(ReqIds)

\* const existing = await this.getRateLimit(apiKeyId, windowStart)
RateLimitRead(c, apiKeyId, windowStart) ==
    /\ rlCalls[c].pc = "idle"
    /\ CallsStarted < MaxCalls
    /\ \E existing \in getRateLimit(rateLimits, apiKeyId, windowStart) :
          rlCalls' = [rlCalls EXCEPT ![c] =
                         [pc |-> "write", apiKeyId |-> apiKeyId,
                          windowStart |-> windowStart, existing |-> existing,
                          done |-> rlCalls[c].done]]
    /\ UNCHANGED <<users, apiKeys, held, now, regs, last, rateLimits, client>>

\* RateLimitWrite with the increment done by the database on the stored
\* count, and the insert refused for a pair that has a row.
RateLimitWriteAtomic(c) ==
    /\ rlCalls[c].pc = "write"
    /\ LET call == rlCalls[c]
           hits == {i \in 1..Len(rateLimits) :
                       /\ rateLimits[i].apiKeyId = call.apiKeyId
                       /\ rateLimits[i].windowStart = call.windowStart}
       IN  IF hits # {}
           THEN rateLimits' = [i \in 1..Len(rateLimits) |->
                                  IF i = CHOOSE h \in hits : TRUE
                                  THEN [rateLimits[i] EXCEPT !.requestCount = @ + 1]
                                  ELSE rateLimits[i]]
           ELSE rateLimits' = Append(rateLimits,
                                  [id |-> Len(rateLimits) + 1,
                                   apiKeyId |-> call.apiKeyId,
                                   windowStart |-> call.windowStart,
                                   requestCount |-> 1])
    /\ rlCalls' = [rlCalls EXCEPT ![c] =
                      [pc |-> "idle",
                       done |-> Append(rlCalls[c].done,
                                       <<rlCalls[c].apiKeyId,
                                         rlCalls[c].windowStart>>)]]
    /\ UNCHANGED <<users, apiKeys, held, now, regs, last, client>>

\* The update of the row read, to the count read plus one; or the insert of a
\* row with count 1.
RateLimitWrite(c) ==
    /\ rlCalls[c].pc = "write"
    /\ LET call == rlCalls[c]
       IN  IF call.existing # <<>>
           THEN rateLimits' = [i \in 1..Len(rateLimits) |->
                                  IF rateLimits[i].id = call.existing[1].id
                                  THEN [rateLimits[i] EXCEPT !.requestCount =
                                           call.existing[1].requestCount + 1]
                                  ELSE rateLimits[i]]
           ELSE rateLimits' = Append(rateLimits,
                                  [id |-> Len(rateLimits) + 1,
                                   apiKeyId |-> call.apiKeyId,
                                   windowStart |-> call.windowStart,
                                   requestCount |-> 1])
    /\ rlCalls' = [rlCalls EXCEPT ![c] =
                      [pc |-> "idle",
                       done |-> Append(rlCalls[c].done,
                                       <<rlCalls[c].apiKeyId,
                                         rlCalls[c].windowStart>>)]]
    /\ UNCHANGED <<users, apiKeys, held, now, regs, last, client>>

InitRateLimits ==
    /\ users = <<>>
    /\ apiKeys = <<>>
    /\ held = {}
    /\ now = 0
    /\ regs = [c \in ReqIds |-> [pc |-> "idle", data |-> <<>>]]
    /\ last = NoResponse
    /\ rateLimits = <<>>
    /\ rlCalls = [c \in ReqIds |-> [pc |-> "idle", done |-> <<>>]]
    /\ client = Unmounted

NextRateLimits ==
    \/ \E c \in ReqIds, k \in RateLimitKeys, w \in WindowStarts :
          RateLimitRead(c, k, w)
    \/ \E c \in ReqIds : RateLimitWrite(c)

SpecRateLimits == InitRateLimits /\ [][NextRateLimits]_vars

----------------------------------------------------------------------------
(* The browser client: AuthProvider.  A request under way is a record in   *)
(* client.pending; the continuation after its await is the action that     *)
(* takes the record out.  The servers' answers are inputs: ok or not ok.   *)

NoTokens == [accessToken |-> <<>>, refreshToken |-> <<>>]

saveTokens(cl, accessToken, refreshToken) ==
    [cl EXCEPT !.storage = [accessToken |-> <<accessToken>>,
                            refreshToken |-> <<refreshToken>>],
               !.token = <<accessToken>>,
               !.refreshTokenValue = <<refreshToken>>]

clearTokens(cl) ==
    [cl EXCEPT !.storage = NoTokens,
               !.token = <<>>,
               !.refreshTokenValue = <<>>,
               !.user = <<>>]

\* A request: what was sent, which call chain awaits it (initAuth, a
\* refreshToken() call, login or register) and, for initAuth, the
\* refreshTokenValue its closure holds.
Request(kind, chain, sent, closure) ==
    [kind |-> kind, chain |-> chain, sent |-> sent, closure |-> closure]

\* The provider after its first render and the run of its effect: state read
\* from localStorage, initAuth waiting for GET /api/user when a token was found.
Mount(storage) ==
    [user |-> <<>>,
     token |-> storage.accessToken,
     refreshTokenValue |-> storage.refreshToken,
     storage |-> storage,
     pending |-> IF storage.accessToken # <<>>
                 THEN {Request("fetchUser", "initAuth", storage.accessToken,
                               storage.refreshToken)}
                 ELSE {},
     loggedOut |-> FALSE]

ClientFrame == UNCHANGED <<users, apiKeys, held, now, regs, last, rateLimits, rlCalls>>

\* fetchUser after its await.  In initAuth, a failure with a refresh token in
\* the closure goes on to refreshToken().
FetchUserResponse(req, ok) ==
    /\ req \in client.pending
    /\ req.kind = "fetchUser"
    /\ LET rest == [client EXCEPT !.pending = @ \ {req}]
       IN  client' =
             IF ok THEN [rest EXCEPT !.user = <<"alice">>]
             ELSE IF req.chain = "initAuth" /\ req.closure # <<>>
                  THEN [rest EXCEPT !.pending =
                           @ \cup {Request("refresh", "initAuth", req.closure, <<>>)}]
                  ELSE rest
    /\ ClientFrame

\* refreshToken() called through the context, up to its await.
CallRefreshToken ==
    /\ Cardinality(client.pending) < MaxPending
    /\ client' =
         IF client.refreshTokenValue = <<>>
         THEN clearTokens(client)
         ELSE [client EXCEPT !.pending =
                  @ \cup {Request("refresh", "refreshToken",
                                  client.refreshTokenValue, <<>>)}]
    /\ ClientFrame

\* refreshToken after its await: saveTokens and fetchUser with the new access
\* token, or clearTokens.
RefreshResponse(req, ok) ==
    /\ req \in client.pending
    /\ req.kind = "refresh"
    /\ LET rest == [client EXCEPT !.pending = @ \ {req}]
       IN  client' =
             IF ok
             THEN [saveTokens(rest, "a1", "r1") EXCEPT !.pending =
                      @ \cup {Request("fetchUser", "refreshToken", <<"a1">>, <<>>)}]
             ELSE clearTokens(rest)
    /\ ClientFrame

\* login(...) or register(...) up to the await of apiRequest.
CallLogin(kind) ==
    /\ Cardinality(client.pending) < MaxPending
    /\ client' = [client EXCEPT !.pending = @ \cup {Request(kind, kind, <<>>, <<>>)},
                                !.loggedOut = FALSE]
    /\ ClientFrame

\* login or register after the await: throws when the answer is not ok.
LoginResponse(req, ok) ==
    /\ req \in client.pending
    /\ req.kind \in {"login", "register"}
    /\ LET rest == [client EXCEPT !.pending = @ \ {req}]
       IN  client' = IF ok
                     THEN [saveTokens(rest, "a2", "r2") EXCEPT !.user = <<"alice">>]
                     ELSE rest
    /\ ClientFrame

\* Logout that also gives up the requests under way: their continuations
\* never run.
LogoutAborting ==
    /\ client' = [clearTokens(client) EXCEPT !.loggedOut = TRUE, !.pending = {}]
    /\ ClientFrame

Logout ==
    /\ client' = [clearTokens(client) EXCEPT !.loggedOut = TRUE]
    /\ ClientFrame

InitClient ==
    /\ users = <<>>
    /\ apiKeys = <<>>
    /\ held = {}
    /\ now = 0
    /\ regs = [c \in ReqIds |-> [pc |-> "idle", data |-> <<>>]]
    /\ last = NoResponse
    /\ rateLimits = <<>>
    /\ rlCalls = [c \in ReqIds |-> [pc |-> "idle"]]
    /\ \E a \in {<<>>, <<"a0">>}, r \in {<<>>, <<"r0">>} :
          client = Mount([accessToken |-> a, refreshToken |-> r])

NextClient ==
    \/ \E req \in client.pending, ok \in BOOLEAN : FetchUserResponse(req, ok)
    \/ CallRefreshToken
    \/ \E req \in client.pending, ok \in BOOLEAN : RefreshResponse(req, ok)
    \/ \E kind \in {"login", "register"} : CallLogin(kind)
    \/ \E req \in client.pending, ok \in BOOLEAN : LoginResponse(req, ok)
    \/ Logout

SpecClient == InitClient /\ [][NextClient]_vars

----------------------------------------------------------------------------
(* Vocabulary of the properties *)

GatedOps ==
    {"getUser", "listApiKeys", "createApiKey", "deleteApiKey",
     "adminListUsers", "adminPatchUser"}

Succeeded(resp) == resp.status \in {200, 201, 204}

\* The token a request presented, in its Authorization header or its body.
PresentedToken(resp) ==
    IF resp.op \in GatedOps /\ resp.auth # <<>> THEN <<resp.auth[1].rest>>
    ELSE IF resp.op = "refresh" THEN resp.input
    ELSE <<>>

\* A token the server signed and that has not expired.
Genuine(tok) == tok.sig = JWT_SECRET /\ now < tok.exp

MintsNothing(resp) == resp.accessToken = <<>> /\ resp.refreshToken = <<>>

----------------------------------------------------------------------------
\* C1: a refresh token is never accepted by the authentication gate (401,
\* the handler does not run) and an access token is never accepted by
\* POST /api/refresh (401, nothing minted), whatever the token's expiry.
C1_TokenTypeSeparation ==
    /\ (/\ last.op \in GatedOps
        /\ last.auth # <<>>
        /\ last.auth[1].rest.type = "refresh")
          => (last.status = 401 /\ ~last.ran)
    /\ (/\ last.op = "refresh"
        /\ last.input # <<>>
        /\ last.input[1].type = "access")
          => (last.status = 401 /\ MintsNothing(last))

\* A genuine, unexpired refresh token sent as a well-formed bearer credential.
C1_Witness ==
    /\ last.op \in GatedOps
    /\ last.auth # <<>>
    /\ last.auth[1].prefix = "Bearer "
    /\ last.auth[1].rest.type = "refresh"
    /\ Genuine(last.auth[1].rest)
    /\ last.status = 401

----------------------------------------------------------------------------
\* C2: in every reachable state, also under concurrent registrations, no two
\* user rows share a username and no two share an email.
C2_UniqueUsernameAndEmail ==
    \A i, j \in 1..Len(users) :
        i # j => /\ users[i].username # users[j].username
                 /\ users[i].email # users[j].email

\* Two requests for one name both passed the existence checks; the second
\* insert was refused by the store.
C2_Witness ==
    /\ last.op = "register"
    /\ last.status = 500
    /\ getUserByUsername(users, last.input[1].username) # <<>>
    /\ Len(users) >= 2

----------------------------------------------------------------------------
\* The strings a response carries about API keys.
KeyStrings(k) == {k.name, k.keyHash, k.keyPrefix}

ResponseKeyStrings(resp) ==
    UNION {KeyStrings(resp.keys[i]) : i \in 1..Len(resp.keys)}
        \cup UNION {KeyStrings(resp.apiKey[i]) : i \in 1..Len(resp.apiKey)}
        \cup {resp.message}

\* v is the raw secret of a stored key.
IsStoredSecret(v) == \E i \in 1..Len(apiKeys) : hashApiKey(v) = apiKeys[i].keyHash

\* C3: the raw secret of a key is sent in the 201 response that created the
\* key and nowhere else: no stored field and no field of any other response
\* (GET /api/api-keys in particular) is the raw secret of a stored key.
C3_SecretDisclosedOnce ==
    /\ \A i \in 1..Len(apiKeys) : \A v \in KeyStrings(apiKeys[i]) : ~IsStoredSecret(v)
    /\ \A v \in ResponseKeyStrings(last) : ~IsStoredSecret(v)
    /\ IF last.op = "createApiKey" /\ last.status = 201
       THEN /\ Len(last.key) = 1
            /\ hashApiKey(last.key[1]) = last.apiKey[1].keyHash
            /\ SubSeq(last.key[1], 1, 12) = last.apiKey[1].keyPrefix
            /\ \A i \in 1..Len(apiKeys) :
                  hashApiKey(last.key[1]) = apiKeys[i].keyHash
                      <=> i = last.apiKey[1].id
       ELSE last.key = <<>>

\* The owner lists the keys after creating one.
C3_Witness ==
    /\ last.op = "listApiKeys"
    /\ last.status = 200
    /\ Len(last.keys) >= 1
    /\ \A i \in 1..Len(last.keys) : Len(last.keys[i].keyPrefix) = 12

----------------------------------------------------------------------------
\* C4: DELETE /api/api-keys/:id by a caller who does not own the existing
\* key answers 404 with the message of a missing key and changes no key.
C4_ForeignRevokeIsNotFound ==
    [][(/\ last'.op = "deleteApiKey"
        /\ last'.ran
        /\ LET id == last'.input[1]
               caller == last'.auth[1].rest.userId
           IN  id \notin 1..Len(apiKeys) \/ apiKeys[id].userId # caller)
          => (/\ last'.status = 404
              /\ last'.message = "API key not found"
              /\ apiKeys' = apiKeys)]_vars

\* A caller was refused the revocation of another user's active key.
C4_Witness ==
    /\ last.op = "deleteApiKey"
    /\ last.status = 404
    /\ last.input[1] \in 1..Len(apiKeys)
    /\ apiKeys[last.input[1]].userId # last.auth[1].rest.userId
    /\ apiKeys[last.input[1]].isActive

----------------------------------------------------------------------------
\* The request answered by resp was made by user u: a login under u's name,
\* or a request that presents a token issued to u.
RequestBy(resp, u) ==
    \/ resp.op = "login" /\ resp.input[1].username = users[u].username
    \/ PresentedToken(resp) # <<>> /\ PresentedToken(resp)[1].userId = u

\* C5: once a user's isActive is false, no request of that user succeeds:
\* login, refresh and every route behind the authentication gate refuse it,
\* also with an access token minted before the deactivation.
C5_DeactivatedUserLockedOut ==
    [][\A u \in 1..Len(users) :
          (~users[u].isActive /\ RequestBy(last', u)) => ~Succeeded(last')]_vars

----------------------------------------------------------------------------
\* C6: a user's role or isActive changes only in a PATCH /api/admin/users/:id
\* whose caller has role admin in the users table when the request is handled.
C6_OnlyDirectoryAdminMutates ==
    [][(\E i \in 1..Len(users) :
            \/ users'[i].role # users[i].role
            \/ users'[i].isActive # users[i].isActive)
          => (/\ last'.op = "adminPatchUser"
              /\ PresentedToken(last') # <<>>
              /\ LET caller == PresentedToken(last')[1].userId
                 IN  caller \in 1..Len(users) /\ users[caller].role = "admin")]_vars

----------------------------------------------------------------------------
\* The user a login names, if the table has one.
LoginTarget(resp) == getUserByUsername(users, resp.input[1].username)

\* C7 as stated: a login that names a deactivated user answers 401 and
\* returns no token, for every password.
C7_InactiveLoginIs401 ==
    (/\ last.op = "login"
     /\ LoginTarget(last) # <<>>
     /\ ~LoginTarget(last)[1].isActive)
        => (last.status = 401 /\ MintsNothing(last))

\* C7 amended: a login that names a deactivated user returns no token and no
\* user; it answers 401 for every password that passes the validation of the
\* body, the correct one included, and 400 for an empty password.
C7_InactiveLoginRejected ==
    (/\ last.op = "login"
     /\ LoginTarget(last) # <<>>
     /\ ~LoginTarget(last)[1].isActive)
        => (/\ last.status = IF loginSchema(last.input[1]) # "" THEN 400 ELSE 401
            /\ MintsNothing(last)
            /\ last.user = <<>>)

\* A deactivated user logged in with the correct password.
C7_Witness ==
    /\ last.op = "login"
    /\ LoginTarget(last) # <<>>
    /\ ~LoginTarget(last)[1].isActive
    /\ comparePassword(last.input[1].password, LoginTarget(last)[1].password)
    /\ last.status = 401

----------------------------------------------------------------------------
(* Registration steps, told apart by the request's position before the step *)

\* The step answers, or moves on, the registration on connection c.
RegisterStep(c, pc) ==
    /\ last'.op = "register"
    /\ last'.conn = c
    /\ regs[c].pc = pc

UsernameHeld(body) == \E i \in 1..Len(users) : users[i].username = body.username

EmailHeld(body) == \E i \in 1..Len(users) : users[i].email = body.email

\* The step answered 400, stored no user and minted no token.
RefusedAsDuplicate ==
    /\ last'.status = 400
    /\ users' = users
    /\ held' = held
    /\ MintsNothing(last')
    /\ last'.user = <<>>

\* C8: a registration whose username is held by an existing user is answered
\* 400 whatever its email, stores no user and mints no token; the same for an
\* email that is held.  A name or email once held stays held.
C8_SecondRegistrationRefused ==
    [][/\ \A c \in ReqIds :
            /\ (RegisterStep(c, "idle") /\ UsernameHeld(last'.input[1]))
                  => RefusedAsDuplicate
            /\ (RegisterStep(c, "idle") /\ EmailHeld(last'.input[1]))
                  => (RefusedAsDuplicate \/ regs'[c].pc = "checkEmail")
            /\ (RegisterStep(c, "checkEmail") /\ EmailHeld(last'.input[1]))
                  => RefusedAsDuplicate
       /\ \A i \in 1..Len(users) :
            /\ i <= Len(users')
            /\ users'[i].username = users[i].username
            /\ users'[i].email = users[i].email]_vars

\* A second registration under a held username with another email.
C8_Witness ==
    /\ last.op = "register"
    /\ last.status = 400
    /\ last.message = "Username already exists"
    /\ registerSchema(last.input[1]) = ""
    /\ getUserByUsername(users, last.input[1].username) # <<>>
    /\ getUserByUsername(users, last.input[1].username)[1].email
          # last.input[1].email

----------------------------------------------------------------------------
\* C9: every registration refused because its username or email is held by
\* a user is answered 400, in every interleaving of concurrent requests.
C9_DuplicateAlways400 ==
    (/\ last.op = "register"
     /\ last.status # 0
     /\ ~Succeeded(last)
     /\ registerSchema(last.input[1]) = ""
     /\ (UsernameHeld(last.input[1]) \/ EmailHeld(last.input[1])))
        => last.status = 400

----------------------------------------------------------------------------
\* C10: a registration with a valid body whose username and email no user
\* holds when the handler's store calls run passes both existence checks and
\* is answered 200; it stores exactly one new user, with the submitted name
\* and email, and returns an access token, a refresh token and the user
\* without a password field.
C10_FreshRegistrationSucceeds ==
    [][\A c \in ReqIds :
          LET body == last'.input[1]
          IN  /\ (/\ RegisterStep(c, "idle")
                  /\ registerSchema(body) = ""
                  /\ ~UsernameHeld(body))
                    => (last'.status = 0 /\ regs'[c].pc = "checkEmail")
              /\ (RegisterStep(c, "checkEmail") /\ ~EmailHeld(body))
                    => (last'.status = 0 /\ regs'[c].pc = "create")
              /\ (/\ RegisterStep(c, "create")
                  /\ ~UsernameHeld(body)
                  /\ ~EmailHeld(body))
                    => (/\ last'.status = 200
                        /\ Len(users') = Len(users) + 1
                        /\ SubSeq(users', 1, Len(users)) = users
                        /\ users'[Len(users')].username = body.username
                        /\ users'[Len(users')].email = body.email
                        /\ Len(last'.user) = 1
                        /\ "password" \notin DOMAIN last'.user[1]
                        /\ last'.user[1] = WithoutPassword(users'[Len(users')])
                        /\ Len(last'.accessToken) = 1
                        /\ Len(last'.refreshToken) = 1
                        /\ last'.accessToken[1].type = "access"
                        /\ last'.refreshToken[1].type = "refresh"
                        /\ last'.accessToken[1].userId = users'[Len(users')].id
                        /\ last'.refreshToken[1].userId = users'[Len(users')].id)]_vars

\* A second account was registered.
C10_Witness ==
    /\ last.op = "register"
    /\ last.status = 200
    /\ Len(users) = 3
    /\ last.user[1].username = last.input[1].username

----------------------------------------------------------------------------
\* The claims an access token of user u must verify to.
AccessClaims(u) ==
    [userId |-> u.id, username |-> u.username, role |-> u.role,
     type |-> "access"]

\* C11: for every user u, verifyToken(generateAccessToken(u)) at any time
\* before the token's expiry returns claims with userId = u.id,
\* username = u.username, role = u.role and type = access; so do the access
\* tokens the routes return, for the user they were minted from.
C11_AccessTokenRoundTrip ==
    /\ \A i \in 1..Len(users) :
          LET tok == generateAccessToken(users[i], now)
          IN  \A t \in Instants \cup {now, now + ACCESS_TOKEN_EXPIRY - 1} :
                 (now <= t /\ t < now + ACCESS_TOKEN_EXPIRY)
                    => verifyToken(tok, t) = <<AccessClaims(users[i])>>
    /\ last.accessToken # <<>>
          => LET tok == last.accessToken[1]
             IN  /\ tok.userId \in 1..Len(users)
                 /\ verifyToken(tok, now) = <<AccessClaims(users[tok.userId])>>
                 /\ verifyToken(tok, now + ACCESS_TOKEN_EXPIRY - 1)
                       = <<AccessClaims(users[tok.userId])>>

\* An access token minted by a refresh passed the authentication gate at a
\* later instant, before its expiry.
C11_Witness ==
    /\ last.op \in GatedOps
    /\ last.ran
    /\ last.auth[1].rest.type = "access"
    /\ last.auth[1].rest.iat < now
    /\ now < last.auth[1].rest.exp

----------------------------------------------------------------------------
\* The header is present, starts with "Bearer " and carries a token that
\* verifies now and has type access.
BearsAccessToken(authHeader) ==
    /\ authHeader # <<>>
    /\ authHeader[1].prefix = "Bearer "
    /\ authHeader[1].rest.sig = JWT_SECRET
    /\ now < authHeader[1].rest.exp
    /\ authHeader[1].rest.type = "access"

\* C12: a request to a route behind the authentication gate gets past the gate
\* exactly when its Authorization header is present, starts with "Bearer " and
\* carries a token that verifies and has type access; otherwise it is answered
\* 401 and the handler does not run.  The identity the handler and the role
\* gate see is the userId and the role of the token's claims.
C12_AuthenticationGate ==
    last.op \in GatedOps =>
        IF BearsAccessToken(last.auth)
        THEN LET claims == last.auth[1].rest
             IN  /\ last.status # 401
                 /\ last.ran \/ last.status = 403
                 /\ last.status = 403 <=> (/\ last.op \in {"adminListUsers",
                                                           "adminPatchUser"}
                                           /\ claims.role # "admin")
                 /\ (last.op = "getUser" /\ last.status = 200)
                       => last.user[1].id = claims.userId
                 /\ last.op = "getUser"
                       => (last.status = 200 <=> claims.userId \in 1..Len(users))
        ELSE /\ last.status = 401
             /\ ~last.ran
             /\ last.user = <<>> /\ last.users = <<>>
             /\ last.message = IF last.auth = <<>> \/ last.auth[1].prefix # "Bearer "
                               THEN "No token provided"
                               ELSE "Invalid or expired token"

\* An access token the server minted was presented under "Bearer " after its
\* expiry and refused.
C12_Witness ==
    /\ last.op \in GatedOps
    /\ last.auth # <<>>
    /\ last.auth[1].prefix = "Bearer "
    /\ last.auth[1].rest.sig = JWT_SECRET
    /\ last.auth[1].rest.type = "access"
    /\ now >= last.auth[1].rest.exp
    /\ last.status = 401
    /\ ~last.ran

----------------------------------------------------------------------------
AdminOps == {"adminListUsers", "adminPatchUser"}

\* C13: requireRole(r) lets a request through exactly when the role attached
\* by the authentication gate is string-equal to r and otherwise answers 403
\* without running the handler; the handlers of GET /api/admin/users and
\* PATCH /api/admin/users/:id run only for requests whose access token carries
\* role admin.
C13_RoleGate ==
    /\ \A tok \in held, r \in {"admin", "user", "guest", "Admin"} :
          LET gate == authMiddleware(<<[prefix |-> "Bearer ", rest |-> tok]>>, now)
              out == requireRole(r, gate)
          IN  gate.status = 0 =>
                 IF tok.role = r THEN out = gate
                 ELSE out.status = 403 /\ out.message = "Insufficient permissions"
    /\ last.op \in AdminOps =>
          /\ last.ran <=> (BearsAccessToken(last.auth)
                              /\ last.auth[1].rest.role = "admin")
          /\ (BearsAccessToken(last.auth) /\ last.auth[1].rest.role # "admin")
                => (/\ last.status = 403
                    /\ last.message = "Insufficient permissions"
                    /\ last.user = <<>> /\ last.users = <<>>)

\* A valid access token whose role is neither user nor admin was refused by
\* the role gate of an admin route.
C13_Witness ==
    /\ last.op \in AdminOps
    /\ BearsAccessToken(last.auth)
    /\ last.auth[1].rest.role = "guest"
    /\ last.status = 403
    /\ ~last.ran

----------------------------------------------------------------------------
\* The token verifies now, has type refresh and names an active user.
RefreshAcceptable(tok) ==
    /\ tok.sig = JWT_SECRET
    /\ now < tok.exp
    /\ tok.type = "refresh"
    /\ tok.userId \in 1..Len(users)
    /\ users[tok.userId].isActive

\* C14: POST /api/refresh answers 400 when the refresh token is missing and
\* 401 when the token fails verification, has a type other than refresh, or
\* names a user who no longer exists or is inactive, and mints nothing in
\* these cases; otherwise it answers 200 with a new access token and a new
\* refresh token whose claims are those of the user's current row.
C14_RefreshOutcomes ==
    last.op = "refresh" =>
        IF last.input = <<>>
        THEN last.status = 400 /\ MintsNothing(last)
        ELSE IF ~RefreshAcceptable(last.input[1])
        THEN last.status = 401 /\ MintsNothing(last)
        ELSE LET u == users[last.input[1].userId]
             IN  /\ last.status = 200
                 /\ Len(last.accessToken) = 1 /\ Len(last.refreshToken) = 1
                 /\ verifyToken(last.accessToken[1], now) = <<AccessClaims(u)>>
                 /\ verifyToken(last.refreshToken[1], now)
                       = <<[AccessClaims(u) EXCEPT !.type = "refresh"]>>
                 /\ last.accessToken[1].exp = now + ACCESS_TOKEN_EXPIRY
                 /\ last.refreshToken[1].exp = now + REFRESH_TOKEN_EXPIRY

\* A refresh token minted under one role was exchanged after the role of its
\* user had been changed: the new tokens carry the new role.
C14_Witness ==
    /\ last.op = "refresh"
    /\ last.status = 200
    /\ last.input[1].role # users[last.input[1].userId].role
    /\ last.accessToken[1].role = users[last.input[1].userId].role
    /\ last.refreshToken[1].role = users[last.input[1].userId].role

----------------------------------------------------------------------------
\* C15: a DELETE /api/api-keys/:id answered 204 clears isActive of that key
\* and changes nothing else; no step removes a row of the api_keys table or
\* changes another field of a stored key; GET /api/api-keys returns every row
\* of the caller as it is stored, the revoked ones (isActive false) included.
C15_RevocationKeepsRow ==
    [][/\ Len(apiKeys') >= Len(apiKeys)
       /\ \A i \in 1..Len(apiKeys) :
             \/ apiKeys'[i] = apiKeys[i]
             \/ /\ last'.op = "deleteApiKey"
                /\ last'.input = <<i>>
                /\ apiKeys'[i] = [apiKeys[i] EXCEPT !.isActive = FALSE]
       /\ (last'.op = "deleteApiKey" /\ last'.status = 204)
             => LET id == last'.input[1]
                IN  /\ id \in 1..Len(apiKeys)
                    /\ apiKeys[id].userId = last'.auth[1].rest.userId
                    /\ apiKeys' = [apiKeys EXCEPT ![id].isActive = FALSE]
       /\ (last'.op = "listApiKeys" /\ last'.status = 200)
             => LET caller == last'.auth[1].rest.userId
                IN  {last'.keys[i] : i \in 1..Len(last'.keys)}
                       = {apiKeys'[i] : i \in {j \in 1..Len(apiKeys') :
                                                 apiKeys'[j].userId = caller}}]_vars

\* The owner lists the keys after revoking one: the key is there, inactive,
\* with the fields it was created with.
C15_Witness ==
    /\ last.op = "listApiKeys"
    /\ last.status = 200
    /\ \E i \in 1..Len(last.keys) :
          /\ ~last.keys[i].isActive
          /\ last.keys[i].userId = last.auth[1].rest.userId
          /\ last.keys[i] = apiKeys[last.keys[i].id]

----------------------------------------------------------------------------
\* C16: revoking an API key cannot be undone: a key whose isActive is false
\* stays in the table with isActive false after every request.
C16_RevocationIsFinal ==
    [][\A i \in 1..Len(apiKeys) :
          ~apiKeys[i].isActive
             => (i <= Len(apiKeys') /\ ~apiKeys'[i].isActive)]_vars

\* A key was created after an earlier key of the same owner had been revoked;
\* the earlier key is still revoked.
C16_Witness ==
    /\ last.op = "createApiKey"
    /\ last.status = 201
    /\ \E i \in 1..Len(apiKeys) :
          /\ i < last.apiKey[1].id
          /\ apiKeys[i].userId = last.apiKey[1].userId
          /\ ~apiKeys[i].isActive

----------------------------------------------------------------------------
\* The user objects a response carries.
ResponseUsers(resp) ==
    {resp.user[i] : i \in 1..Len(resp.user)}
        \cup {resp.users[i] : i \in 1..Len(resp.users)}

\* C17: no user object in a response (register, login, GET /api/user,
\* GET /api/admin/users, PATCH /api/admin/users/:id) has a password field, and
\* the password stored for a user is the hash hashPassword computes of the
\* submitted password, never the submitted password itself.
C17_PasswordNeverExposed ==
    /\ \A u \in ResponseUsers(last) :
          /\ "password" \notin DOMAIN u
          /\ u = WithoutPassword(users[u.id])
    /\ \A i \in 1..Len(users) : SubSeq(users[i].password, 1, 7) = "$2a$10$"
    /\ (last.op = "register" /\ last.status = 200)
          => LET row == users[last.user[1].id]
             IN  /\ row.password = hashPassword(last.input[1].password)
                 /\ row.password # last.input[1].password

\* An administrator lists the users after an account was registered.
C17_Witness ==
    /\ last.op = "adminListUsers"
    /\ last.status = 200
    /\ Len(last.users) >= 2
    /\ \A i \in 1..Len(last.users) : users[last.users[i].id].password # ""

----------------------------------------------------------------------------
\* C18: in every reachable state the role of every user is one of the two
\* values user and admin.
C18_RolesAreUserOrAdmin ==
    \A i \in 1..Len(users) : users[i].role \in {"user", "admin"}

----------------------------------------------------------------------------
\* 24 hours for an access token, 7 days for a refresh token.
Lifetime(tok) == IF tok.type = "access" THEN 24 * 60 * 60 ELSE 7 * 24 * 60 * 60

\* The tokens the server signed that the state knows of.
KnownTokens ==
    {tok \in held \cup DepartedTokens
               \cup {last.accessToken[i] : i \in 1..Len(last.accessToken)}
               \cup {last.refreshToken[i] : i \in 1..Len(last.refreshToken)}
               \cup {PresentedToken(last)[i] : i \in 1..Len(PresentedToken(last))} :
        tok.sig = JWT_SECRET}

\* C19: whether verifyToken accepts a token depends on the token and the
\* clock alone: it accepts an access token at every time earlier than 24 hours
\* after its minting and a refresh token at every time earlier than 7 days
\* after its minting, and rejects it from then on, whatever was refreshed,
\* dropped by a client, or changed in the account of its user since; the
\* routes answer accordingly.
C19_ExpiryAloneInvalidates ==
    /\ \A tok \in KnownTokens : \A t \in Instants \cup {now} :
          verifyToken(tok, t) # <<>> <=> t < tok.iat + Lifetime(tok)
    /\ (/\ last.op \in GatedOps
        /\ last.auth # <<>>
        /\ last.auth[1].prefix = "Bearer "
        /\ last.auth[1].rest.sig = JWT_SECRET
        /\ last.auth[1].rest.type = "access")
          => (last.status = 401 <=> now >= last.auth[1].rest.iat + 24 * 60 * 60)
    /\ (/\ last.op = "refresh"
        /\ last.input # <<>>
        /\ last.input[1].sig = JWT_SECRET
        /\ last.input[1].type = "refresh")
          => (last.message = "Invalid refresh token"
                 <=> now >= last.input[1].iat + 7 * 24 * 60 * 60)

\* A refresh token of an active user was presented exactly 7 days after it
\* was minted and refused.
C19_Witness ==
    /\ last.op = "refresh"
    /\ last.input # <<>>
    /\ last.input[1].sig = JWT_SECRET
    /\ last.input[1].type = "refresh"
    /\ now = last.input[1].iat + 7 * 24 * 60 * 60
    /\ last.input[1].userId \in 1..Len(users)
    /\ users[last.input[1].userId].isActive
    /\ last.status = 401

----------------------------------------------------------------------------
\* The token is acceptable to POST /api/refresh in the state after the step.
StillAcceptable(tok) ==
    /\ tok.sig = JWT_SECRET
    /\ now' < tok.exp
    /\ tok.type = "refresh"
    /\ tok.userId \in 1..Len(users')
    /\ users'[tok.userId].isActive

\* C20: a successful POST /api/refresh leaves the refresh token it was given
\* as acceptable as before (rotation invalidates nothing), and every
\* POST /api/refresh with a refresh token that has not expired and whose user
\* exists and is active is answered 200 with new tokens, whether or not the
\* token was used before.
C20_RefreshTokenReusable ==
    [][/\ (last'.op = "refresh" /\ last'.status = 200)
             => /\ StillAcceptable(last'.input[1])
                /\ \A tok \in held : RefreshAcceptable(tok) => StillAcceptable(tok)
       /\ (/\ last'.op = "refresh"
           /\ last'.input # <<>>
           /\ RefreshAcceptable(last'.input[1]))
             => (/\ last'.status = 200
                 /\ Len(last'.accessToken) = 1
                 /\ Len(last'.refreshToken) = 1)]_vars

\* The refresh token root kept from the login at time 0 is exchanged again,
\* at a later instant than the refresh that minted a token root still holds.
C20_Witness ==
    /\ last.op = "refresh"
    /\ last.status = 200
    /\ last.input[1] = generateRefreshToken(
                          [id |-> 1, username |-> "root", role |-> "admin"], 0)
    /\ \E tok \in held : /\ tok.userId = 1
                         /\ tok.iat > 0
                         /\ tok.iat < now

----------------------------------------------------------------------------
\* C21: for every successful key issuance the stored expiresAt is the
\* issuance time plus expiresInDays * 86400 seconds whenever the body
\* supplies a numeric expiresInDays, and is null exactly when the body
\* supplies none.  expiresAt is held in milliseconds.
C21_ExpiryFromDays ==
    (last.op = "createApiKey" /\ last.status = 201)
        => LET days == last.input[1].expiresInDays
               row == apiKeys[last.apiKey[1].id]
           IN  IF days = <<>>
               THEN row.expiresAt = <<>>
               ELSE row.expiresAt = <<(now + days[1] * 86400) * 1000>>

----------------------------------------------------------------------------
HexDigits == {CharAt("0123456789abcdef", j) : j \in 1..16}

----------------------------------------------------------------------------
\* C23: GET /api/api-keys returns exactly the stored keys whose userId is the
\* caller's, active and revoked, each once and as stored, never a key of
\* another user, ordered by creation time with the newest first.
C23_ListOwnKeysNewestFirst ==
    (last.op = "listApiKeys" /\ last.status = 200)
        => LET caller == last.auth[1].rest.userId
               own == {i \in 1..Len(apiKeys) : apiKeys[i].userId = caller}
           IN  /\ Len(last.keys) = Cardinality(own)
               /\ {last.keys[i] : i \in 1..Len(last.keys)}
                     = {apiKeys[i] : i \in own}
               /\ \A i \in 1..Len(last.keys) : last.keys[i].userId = caller
               /\ \A i, j \in 1..Len(last.keys) :
                     i < j => last.keys[i].createdAt >= last.keys[j].createdAt

\* A caller lists two keys created at different times, the older one revoked.
C23_Witness ==
    /\ last.op = "listApiKeys"
    /\ last.status = 200
    /\ Len(last.keys) = 2
    /\ last.keys[1].createdAt > last.keys[2].createdAt
    /\ ~last.keys[2].isActive
    /\ last.keys[1].isActive

----------------------------------------------------------------------------
\* C24: key issuance is not idempotent: every POST /api/api-keys answered 201,
\* a repeat of an identical request by the same caller included, adds one row
\* to the table and leaves the others as they were; the new row has an id and
\* a secret no earlier row has, so n successful requests leave n distinct rows.
C24_IssuanceNotIdempotent ==
    [][(last'.op = "createApiKey" /\ last'.status = 201)
          => /\ Len(apiKeys') = Len(apiKeys) + 1
             /\ SubSeq(apiKeys', 1, Len(apiKeys)) = apiKeys
             /\ last'.apiKey[1] = apiKeys'[Len(apiKeys')]
             /\ \A i \in 1..Len(apiKeys) :
                   /\ apiKeys[i].id # last'.apiKey[1].id
                   /\ apiKeys[i].keyHash # hashApiKey(last'.key[1])
             /\ \A i, j \in 1..Len(apiKeys') :
                   i # j => /\ apiKeys'[i].id # apiKeys'[j].id
                            /\ apiKeys'[i].keyHash # apiKeys'[j].keyHash]_vars

\* The same caller sent the same body twice at the same instant: two rows
\* that differ in id and secret only.
C24_Witness ==
    /\ last.op = "createApiKey"
    /\ last.status = 201
    /\ Len(apiKeys) = 2
    /\ apiKeys[2].id # apiKeys[1].id
    /\ apiKeys[2].keyHash # apiKeys[1].keyHash
    /\ [apiKeys[2] EXCEPT !.id = 0, !.keyHash = "", !.keyPrefix = ""]
          = [apiKeys[1] EXCEPT !.id = 0, !.keyHash = "", !.keyPrefix = ""]

----------------------------------------------------------------------------
\* The step leaves every stored user in place with its id, username, email,
\* password hash and creation time, and changes a row only in a
\* PATCH /api/admin/users/:id addressed to it.
UsersFrame ==
    /\ Len(users') >= Len(users)
    /\ \A i \in 1..Len(users) :
          /\ users'[i] = [users[i] EXCEPT !.role = users'[i].role,
                                          !.isActive = users'[i].isActive]
          /\ users'[i] # users[i]
                => (/\ last'.op = "adminPatchUser"
                    /\ last'.status = 200
                    /\ last'.input[1].id = i)

\* C25: no operation deletes a user record; PATCH /api/admin/users/:id
\* changes only the role and isActive of the addressed user and no other
\* record; for an id that matches no user it answers 404 and changes nothing.
C25_PatchTouchesRoleAndActiveOnly ==
    [][/\ UsersFrame
       /\ (/\ last'.op = "adminPatchUser"
           /\ last'.ran
           /\ last'.input[1].id \notin 1..Len(users))
             => (last'.status = 404 /\ users' = users)]_vars

----------------------------------------------------------------------------
\* sub occurs in s.
Contains(s, sub) ==
    \E i \in 1..(Len(s) - Len(sub) + 1) : SubSeq(s, i, i + Len(sub) - 1) = sub

\* C26: when a store call of a route handler fails unexpectedly, the request
\* is answered 500 with the fixed message of the route, which holds nothing
\* of the failure, and with no other content; the failure itself is written
\* to the server log only.
C26_StoreFailureIsGeneric500 ==
    /\ last.status = 500
          => /\ last.message = Routes[last.op].message
             /\ last.user = <<>> /\ last.users = <<>>
    /\ last.error # <<>>
        => LET e == last.error[1]
           IN  /\ last.status = 500
               /\ last.message = Routes[last.op].message
               /\ \A d \in StoreErrors : ~Contains(last.message, d)
               /\ last.message # e
               /\ last.user = <<>> /\ last.users = <<>>
               /\ last.accessToken = <<>> /\ last.refreshToken = <<>>
               /\ last.keys = <<>> /\ last.apiKey = <<>> /\ last.key = <<>>
               /\ last.logged = <<Routes[last.op].label, e>>

\* The store failed under an administrator's PATCH /api/admin/users/:id.
C26_Witness ==
    /\ last.op = "adminPatchUser"
    /\ last.error # <<>>
    /\ last.status = 500
    /\ last.message = "Failed to update user"
    /\ Len(last.logged) = 2

----------------------------------------------------------------------------
OpenOps == {"register", "login", "refresh"}

\* C27: every route other than POST /api/register, POST /api/login and
\* POST /api/refresh runs its handler only for a request whose Authorization
\* header carries a valid access token (and, on the admin routes, role
\* admin); a request rejected by the authentication gate or the role gate is
\* answered 401 or 403 from its header and the clock alone: the store is
\* neither written nor read, and no store call is made that could fail.
C27_GatesBeforeHandlers ==
    [][(last'.op \in (DOMAIN Routes) \ OpenOps)
          => /\ last'.ran
                   => /\ BearsAccessToken(last'.auth)
                      /\ Routes[last'.op].gate = "admin"
                            => last'.auth[1].rest.role = "admin"
             /\ ~last'.ran
                   => /\ last'.status \in {401, 403}
                      /\ users' = users /\ apiKeys' = apiKeys
                      /\ last' = Rejected(last'.op, last'.auth,
                                          RouteGate(last'.op, last'.auth, now))
                      /\ last'.error = <<>>]_vars

\* A registered user without the admin role was turned away by the role gate
\* of PATCH /api/admin/users/:id.
C27_Witness ==
    /\ last.op = "adminPatchUser"
    /\ last.status = 403
    /\ ~last.ran
    /\ BearsAccessToken(last.auth)
    /\ last.auth[1].rest.userId = 2
    /\ Len(users) = 2

----------------------------------------------------------------------------
\* C28: from a store in which no user has role admin, with tokens that
\* cannot be forged, no sequence of requests reaches a state in which a user
\* has role admin or a user's isActive is false: every user stays an active
\* ordinary user, and no token with role admin is ever issued.
C28_NoPrivilegeEscalation ==
    /\ \A i \in 1..Len(users) : users[i].role = "user" /\ users[i].isActive
    /\ \A tok \in held : tok.role # "admin"
    /\ last.op \in AdminOps => ~last.ran

\* A registered user presented a forged administrator token to
\* PATCH /api/admin/users/:id and was refused.
C28_Witness ==
    /\ last.op = "adminPatchUser"
    /\ last.auth # <<>>
    /\ last.auth[1].prefix = "Bearer "
    /\ last.auth[1].rest \in ForgedTokens
    /\ last.auth[1].rest.role = "admin"
    /\ last.status = 401
    /\ Len(users) >= 2

----------------------------------------------------------------------------
\* The calls completed for a pair, over all callers.
Completed(apiKeyId, windowStart) ==
    LET RECURSIVE Count(_)
        Count(S) == IF S = {} THEN 0
                    ELSE LET c == CHOOSE x \in S : TRUE
                         IN  Len(SelectSeq(rlCalls[c].done,
                                           LAMBDA d : d = <<apiKeyId, windowStart>>))
                                + Count(S \ {c})
    IN  Count(ReqIds)

\* C29: once n calls of createOrUpdateRateLimit for a pair (apiKeyId,
\* windowStart) have completed and none is under way, in any interleaving of
\* concurrent calls, the table has exactly one row for the pair and its
\* requestCount is n.
C29_OneRowCountsCalls ==
    (\A c \in ReqIds : rlCalls[c].pc = "idle")
        => \A k \in RateLimitKeys, w \in WindowStarts :
              LET n == Completed(k, w)
                  rows == {i \in 1..Len(rateLimits) :
                              /\ rateLimits[i].apiKeyId = k
                              /\ rateLimits[i].windowStart = w}
              IN  IF n = 0 THEN rows = {}
                  ELSE /\ Cardinality(rows) = 1
                       /\ \A i \in rows : rateLimits[i].requestCount = n

----------------------------------------------------------------------------
\* C30: in the client, from logout() until the next call of login or
\* register, the access token, the refresh token and the user are null and
\* localStorage holds neither token, whatever request started earlier
\* completes in between.
C30_LogoutStays ==
    client.loggedOut
        => /\ client.token = <<>>
           /\ client.refreshTokenValue = <<>>
           /\ client.user = <<>>
           /\ client.storage = NoTokens

====
